---- MODULE Spec2Model ----
(***************************************************************************)
(* A model of the Shopify inventory client (services/Shopify_Inventory.py) *)
(* and of the thread-pool driver that fans out set_inventory_quantity      *)
(* calls (main.py).                                                        *)
(*                                                                         *)
(* Three specifications share the module's variables:                      *)
(*   SpecIds       the identifier conversions (short form, GID form)       *)
(*   Spec          one call of one client operation against a server       *)
(*   SpecDispatch  main()'s ThreadPoolExecutor fan-out                     *)
(* Each specification holds the variables of the other two at their        *)
(* initial values.                                                         *)
(*                                                                         *)
(* Python strings are sequences of one-character strings, so that          *)
(* startswith and split('/') are computed, not assumed.                    *)
(***************************************************************************)
EXTENDS Integers, Sequences, FiniteSets, TLC

VARIABLES
    \* ---- identifier conversions (SpecIds)
    ident,          \* the identifier handed in
    etype,          \* the entity type whose rule is applied
    short_form,     \* ident.split('/')[-1]
    requalified,    \* the short form put through the normalization rule
    normalized,     \* ident put through the normalization rule
    renormalized,   \* normalized put through the normalization rule again
    idpc,           \* "start" | "split" | "done" | "normalized" | "renormalized"
    \* ---- one client operation (Spec)
    op,             \* the operation called, "none" before the call
    arg_item,       \* inventory_item_id argument
    arg_location,   \* location_id argument
    arg_quantity,   \* new_quantity / quantity_change argument
    cpc,            \* position of the call
    stock,          \* server: available quantity of the item per location
    stock_at_adjust, \* server: the stock it held when it answered the mutation
    served,         \* server: the pages it has served, in order
    requests,       \* every request sent, in order
    responses,      \* every exchange's end, in order (a page: its shape only)
    cursor,         \* local variable cursor of the pagination loops
    has_next_page,  \* local variable has_next_page of the pagination loops
    all_inventory,  \* local variable all_inventory of the pagination loops
    current_quantity, \* local variable of set_inventory_quantity
    ret,            \* what the operation returned or raised
    \* ---- the dispatcher (SpecDispatch)
    max_workers,    \* width of the pool
    items,          \* number of records in location_Inventory_Detailed
    futures,        \* per submitted command: its future's state
    queue,          \* the executor's work queue (indices of futures)
    num_threads,    \* worker threads the executor has started
    reported,       \* outcomes main has printed, in order of the as_completed loop
    starts,         \* per command: how many times a worker started it
    mainpc          \* "submit" | "drain" | "shutdown" | "done"

idVars == <<ident, etype, short_form, requalified, normalized, renormalized, idpc>>
clientVars == <<op, arg_item, arg_location, arg_quantity, cpc, stock, stock_at_adjust,
                served, requests, responses, cursor, has_next_page,
                all_inventory, current_quantity, ret>>
dispVars == <<max_workers, items, futures, queue, num_threads, reported,
              starts, mainpc>>
vars == <<idVars, clientVars, dispVars>>

(***************************************************************************)
(* Bounds of the model.                                                    *)
(***************************************************************************)
MaxLen == 3         \* longest identifier tail drawn
MaxQty == 2         \* largest quantity held by the server or asked for
MaxPages == 3       \* most pages the server serves for one listing
MaxPageSize == 3    \* most edges on one page of inventory levels
MaxVariants == 3    \* most variants over the pages of one product listing
MaxItems == 3       \* most commands handed to the dispatcher
MaxWorkers == 2     \* widest pool drawn

(***************************************************************************)
(* Strings.                                                                *)
(***************************************************************************)
GidScheme == <<"g", "i", "d", ":", "/", "/">>
ShopifyNs == <<"s", "h", "o", "p", "i", "f", "y", "/">>
InventoryItemType == <<"I", "n", "v", "e", "n", "t", "o", "r", "y", "I", "t", "e", "m">>
LocationType == <<"L", "o", "c", "a", "t", "i", "o", "n">>
EntityTypes == {InventoryItemType, LocationType}

\* f"gid://shopify/<EntityType>/"
GidPrefix(t) == GidScheme \o ShopifyNs \o t \o <<"/">>

\* s.startswith(p)
startswith(s, p) == Len(s) >= Len(p) /\ SubSeq(s, 1, Len(p)) = p

\* Index of the last '/' of s, 0 when s holds none.
LastSlash(s) ==
    LET at == {i \in 1..Len(s) : s[i] = "/"}
    IN  IF at = {} THEN 0 ELSE CHOOSE i \in at : \A j \in at : j <= i

\* split_last with a fault, for comparison: the substring after the FIRST '/'.
split_first(s) ==
    LET at == {i \in 1..Len(s) : s[i] = "/"}
        k == IF at = {} THEN 0 ELSE CHOOSE i \in at : \A j \in at : i <= j
    IN  SubSeq(s, k + 1, Len(s))

\* s.split('/')[-1]
split_last(s) == SubSeq(s, LastSlash(s) + 1, Len(s))

\* normalize with a fault, for comparison: the prefix is put in front of every
\* identifier.
normalize_always(id, t) == GidPrefix(t) \o id

\* if not id.startswith('gid://'): id = f"gid://shopify/<EntityType>/{id}"
normalize(id, t) == IF startswith(id, GidScheme) THEN id ELSE GidPrefix(t) \o id

(***************************************************************************)
(* Identifiers drawn for the conversions.  Digits are the characters of a  *)
(* numeric id; TailChars adds the separator and a letter, so that tails    *)
(* that are not ids are drawn too.                                         *)
(***************************************************************************)
Digits == {"1", "2"}
TailChars == Digits \cup {"/", "g"}
Tails == UNION {[1..n -> TailChars] : n \in 0..MaxLen}

\* A fully-qualified identifier of entity type t: gid://shopify/<t>/<numeric id>
IsFullyQualified(s, t) ==
    /\ startswith(s, GidPrefix(t))
    /\ Len(s) > Len(GidPrefix(t))
    /\ \A i \in (Len(GidPrefix(t)) + 1)..Len(s) : s[i] \in Digits

Identifiers ==
    Tails \cup {GidScheme \o s : s \in Tails}
          \cup {GidPrefix(t) \o s : t \in EntityTypes, s \in Tails}

(***************************************************************************)
(* Python values.  None is a record of its own; an operation ends by       *)
(* returning a value or by raising.                                        *)
(***************************************************************************)
None == [none |-> TRUE]
Return(v) == [raised |-> "no", value |-> v]
Raise(e) == [raised |-> e, value |-> <<>>]

(***************************************************************************)
(* One HTTP exchange ends in a RequestException (connection error,         *)
(* timeout, non-2xx status through raise_for_status) or in a parsed JSON   *)
(* body.  An exchange is a record whose field shape is one of              *)
(*   request_exception  requests raised a RequestException                 *)
(*   empty_object       {}                                                 *)
(*   errors_only        {"errors": [...]}                                  *)
(*   data_null          {"data": null, "errors": [...]}                    *)
(*   key_missing        {"data": {}}                                       *)
(*   object_null        {"data": {key: null}}                              *)
(*   ok                 {"data": {key: payload}}                           *)
(* where key is the top-level field of the query (locations,               *)
(* inventoryItem, ...).  The result _make_request returns has the shape    *)
(* "None" or the shape of the body.                                        *)
(***************************************************************************)
FailureShapes == {"request_exception", "empty_object", "errors_only",
                  "data_null", "key_missing", "object_null"}

\* make_request with a fault, for comparison: the RequestException is not caught.
make_request_uncaught(net) ==
    IF net.shape = "request_exception"
    THEN Raise("RequestException")
    ELSE Return(net)

\* _make_request: try: post, raise_for_status, return response.json()
\*                except RequestException: return None
make_request(net) ==
    IF net.shape = "request_exception"
    THEN Return([net EXCEPT !.shape = "None"])
    ELSE Return(net)

\* `not result`: None and {} are falsy
Falsy(result) == result.shape \in {"None", "empty_object"}

\* `'data' in result`, for a result that is a dict
HasData(result) == result.shape \in {"data_null", "key_missing", "object_null", "ok"}

\* result['data'][key]: what the two subscripts raise
SubscriptFault(result) ==
    CASE result.shape = "data_null" -> "TypeError"
      [] result.shape = "key_missing" -> "KeyError"
      [] OTHER -> "no"

\* result['data'][key] is None
ObjectIsNone(result) == result.shape = "object_null"

(***************************************************************************)
(* The server's data: two locations and one inventory item; stock maps the *)
(* locations at which the item has a level to its available quantity.      *)
(***************************************************************************)
LocationOrder == << <<"1">>, <<"2">> >>
Locations == {LocationOrder[i] : i \in 1..Len(LocationOrder)}
LocationGid(l) == GidPrefix(LocationType) \o l
KnownItem == <<"7">>
UnknownItem == <<"8">>
ItemGid(i) == GidPrefix(InventoryItemType) \o i
Quantities == 0..MaxQty
StockStates == UNION {[S -> Quantities] : S \in SUBSET Locations}
NoStock == [l \in {} |-> 0]

Failures(payload) == {[payload EXCEPT !.shape = s] : s \in FailureShapes}

\* ---- query getLocations
LocationEdges ==
    [i \in 1..Len(LocationOrder) |->
        [node |-> [id |-> LocationGid(LocationOrder[i]),
                   name |-> "warehouse",
                   address |-> [city |-> "city"]]]]

LocationsExchanges ==
    LET good == [shape |-> "ok", edges |-> LocationEdges]
    IN  {good} \cup Failures(good)

\* ---- query getInventoryLevels
LevelEdges(st) ==
    LET Stocked(l) == l \in DOMAIN st
        at == SelectSeq(LocationOrder, Stocked)
    IN  [i \in 1..Len(at) |->
            [node |-> [available |-> st[at[i]],
                       location |-> [id |-> LocationGid(at[i]),
                                     name |-> "warehouse"]]]]

LevelsRequest(inventory_item_id) ==
    [query |-> "getInventoryLevels",
     variables |-> [inventoryItemId |-> inventory_item_id]]

\* The item is looked up by its GID; an unknown GID gives inventoryItem: null.
LevelsExchanges(req, st) ==
    LET good == IF req.variables.inventoryItemId = ItemGid(KnownItem)
                THEN [shape |-> "ok", edges |-> LevelEdges(st)]
                ELSE [shape |-> "object_null", edges |-> <<>>]
    IN  {good} \cup Failures(good)

\* ---- mutation inventoryAdjustQuantities
AdjustRequest(inventory_item_id, location_id, quantity_change) ==
    [query |-> "inventoryAdjustQuantities",
     variables |-> [delta |-> quantity_change,
                    inventoryItemId |-> inventory_item_id,
                    locationId |-> location_id]]

\* The level the mutation addresses, when the item is stocked there.
Addressed(req, st) ==
    {l \in DOMAIN st : /\ req.variables.inventoryItemId = ItemGid(KnownItem)
                       /\ req.variables.locationId = LocationGid(l)}

\* The server applies the delta when it answers without userErrors; it may
\* always answer with userErrors (a validation failure) and apply nothing.
AdjustExchanges(req, st) ==
    LET rejected == [shape |-> "ok", userErrors |-> <<"invalid">>, applied |-> FALSE]
        accepted == [shape |-> "ok", userErrors |-> <<>>, applied |-> TRUE]
    IN  {rejected} \cup Failures(rejected)
                   \cup (IF Addressed(req, st) = {} THEN {} ELSE {accepted})

StockAfter(req, net, st) ==
    IF net.applied
    THEN [l \in DOMAIN st |->
            IF l \in Addressed(req, st) THEN st[l] + req.variables.delta ELSE st[l]]
    ELSE st

(***************************************************************************)
(* The client's operations, as functions of the exchange they get.         *)
(***************************************************************************)

\* get_locations, from the result of its request on
get_locations(net) ==
    LET r == make_request(net)
        result == r.value
    IN  IF r.raised # "no" THEN r
        ELSE IF ~Falsy(result) /\ HasData(result)
        THEN IF SubscriptFault(result) # "no" THEN Raise(SubscriptFault(result))
             ELSE IF ObjectIsNone(result) THEN Raise("TypeError")
             ELSE Return([i \in 1..Len(result.edges) |->
                            LET location == result.edges[i].node
                            IN  [id |-> split_last(location.id),
                                 gid |-> location.id,
                                 name |-> location.name,
                                 city |-> location.address.city]])
        ELSE Return(<<>>)

\* get_inventory_levels, from the result of its request on
get_inventory_levels(net) ==
    LET r == make_request(net)
        result == r.value
    IN  IF r.raised # "no" THEN r
        ELSE IF Falsy(result) \/ ~HasData(result) THEN Return(<<>>)
        ELSE IF SubscriptFault(result) # "no" THEN Raise(SubscriptFault(result))
        ELSE IF ObjectIsNone(result) THEN Return(<<>>)
        ELSE Return([i \in 1..Len(result.edges) |->
                        LET level == result.edges[i].node
                        IN  [location_id |-> split_last(level.location.id),
                             location_gid |-> level.location.id,
                             location_name |-> level.location.name,
                             available |-> level.available]])

\* update_inventory, from the result of its request on
update_inventory(net) ==
    LET r == make_request(net)
        result == r.value
    IN  IF r.raised # "no" THEN r
        ELSE IF Falsy(result) \/ ~HasData(result) THEN Return(FALSE)
        ELSE IF SubscriptFault(result) # "no" THEN Raise(SubscriptFault(result))
        ELSE IF ObjectIsNone(result) THEN Raise("TypeError")
        ELSE IF result.userErrors # <<>> THEN Return(FALSE)
        ELSE Return(TRUE)

\* CurrentQuantity with a fault, for comparison: only the short identifier is compared.
CurrentQuantityShortOnly(current_levels, location_id) ==
    LET hits == {i \in 1..Len(current_levels) :
                    current_levels[i].location_id = location_id}
    IN  IF hits = {} THEN 0
        ELSE current_levels[CHOOSE i \in hits : \A j \in hits : i <= j].available

\* set_inventory_quantity's loop over current_levels: the available quantity
\* of the first level whose short id or GID equals location_id, 0 without one.
CurrentQuantity(current_levels, location_id) ==
    LET hits == {i \in 1..Len(current_levels) :
                    \/ current_levels[i].location_id = location_id
                    \/ current_levels[i].location_gid = location_id}
    IN  IF hits = {} THEN 0
        ELSE current_levels[CHOOSE i \in hits : \A j \in hits : i <= j].available

\* QuantityChange with a fault, for comparison: the operands swapped.
QuantityChangeSwapped(new_quantity, current) == current - new_quantity

\* quantity_change = new_quantity - current_quantity
\* QuantityChange with a fault, for comparison: the target is sent as the delta.
QuantityChangeAbsolute(new_quantity, current) == new_quantity

QuantityChange(new_quantity, current) == new_quantity - current

(***************************************************************************)
(* The paginated listings.  The server keeps the descriptors of the pages  *)
(* it has served; the page after cursor c is drawn when it is first asked  *)
(* for and served again unchanged when asked for again.  The end cursor of *)
(* page n encodes n.                                                       *)
(***************************************************************************)
InventoryLevelType == <<"I", "n", "v", "e", "n", "t", "o", "r", "y", "L", "e", "v", "e", "l">>
ProductType == <<"P", "r", "o", "d", "u", "c", "t">>
ProductVariantType == <<"P", "r", "o", "d", "u", "c", "t", "V", "a", "r", "i", "a", "n", "t">>
DigitChars == <<"0", "1", "2", "3", "4", "5", "6", "7", "8", "9">>
\* The numeric id of the j-th node of page n.
NodeId(n, j) == <<DigitChars[n + 1], DigitChars[j + 1]>>
LevelGid(n, j) == GidPrefix(InventoryLevelType) \o NodeId(n, j) \o <<"?">> \o NodeId(n, j)

CursorOf(n) == [cursor |-> n]
\* How many pages lie before the one a request with this cursor asks for.
PagesBefore(after) == IF after = None THEN 0 ELSE after.cursor

Min(a, b) == IF a <= b THEN a ELSE b
InventoryDefaultLimit == 250
InventoryMaxFirst == 250
ProductsDefaultLimit == 50
ProductsMaxFirst == 50

InventoryRequest(location_id, limit, after) ==
    [query |-> "getInventoryByLocation",
     variables |-> [locationId |-> location_id,
                    first |-> Min(limit, InventoryMaxFirst),
                    after |-> after]]

ProductsRequest(location_id, limit, after) ==
    [query |-> "getProductsWithInventory",
     variables |-> [locationId |-> location_id,
                    first |-> Min(limit, ProductsMaxFirst),
                    after |-> after]]

KnownLocation(req) == \E l \in Locations : req.variables.locationId = LocationGid(l)

\* ---- pages of inventory levels
\* Descriptors of the pages the server may serve as page n: any size, a next
\* page or none, none after page MaxPages.
InventoryDraws(n) ==
    {[number |-> n, size |-> k, hasNextPage |-> more, endCursor |-> CursorOf(n)] :
        k \in 0..MaxPageSize, more \in {b \in BOOLEAN : b => n < MaxPages}}

\* The quantities of the j-th level: every level has an on_hand entry, the
\* odd ones an available entry too.
LevelQuantities(j) ==
    IF j % 2 = 1
    THEN <<[name |-> "available", quantity |-> j], [name |-> "on_hand", quantity |-> j]>>
    ELSE <<[name |-> "on_hand", quantity |-> j]>>

InventoryPage(d) ==
    [shape |-> "ok",
     name |-> "warehouse",
     edges |-> [j \in 1..d.size |->
                  [node |-> [id |-> LevelGid(d.number, j),
                             quantities |-> LevelQuantities(j),
                             item |-> [id |-> ItemGid(NodeId(d.number, j)),
                                       sku |-> "sku",
                                       tracked |-> TRUE]]]],
     pageInfo |-> [hasNextPage |-> d.hasNextPage, endCursor |-> d.endCursor],
     descriptor |-> d]

\* The exchanges a request for a page of inventory levels may end in.
InventoryExchanges(req, srv) ==
    LET n == PagesBefore(req.variables.after) + 1
        draws == IF n <= Len(srv) THEN {srv[n]} ELSE InventoryDraws(n)
        null == [InventoryPage([number |-> n, size |-> 0, hasNextPage |-> FALSE,
                               endCursor |-> CursorOf(n)])
                    EXCEPT !.shape = "object_null"]
    IN  Failures(null) \cup
        (IF KnownLocation(req) THEN {InventoryPage(d) : d \in draws} ELSE {})

\* The server's pages after an exchange: a page served for the first time is
\* kept.
ServedAfter(req, net, srv) ==
    IF net.shape = "ok" /\ PagesBefore(req.variables.after) + 1 > Len(srv)
    THEN Append(srv, net.descriptor)
    ELSE srv

\* {q['name']: q['quantity'] for q in quantities}: a later entry of a name
\* replaces an earlier one
QuantitiesDict(quantities) ==
    [nm \in {quantities[i].name : i \in 1..Len(quantities)} |->
        LET at == {i \in 1..Len(quantities) : quantities[i].name = nm}
        IN  quantities[CHOOSE i \in at : \A j \in at : j <= i].quantity]

\* dict.get(key, default)
Get(dict, key, default) == IF key \in DOMAIN dict THEN dict[key] ELSE default

\* The body of get_all_inventory_by_location's for loop: the record of one edge.
InventoryRecord(item, location_data) ==
    LET quantities_dict == QuantitiesDict(item.quantities)
    IN  [inventory_level_id |-> split_last(item.id),
         inventory_level_gid |-> item.id,
         available |-> Get(quantities_dict, "available", 0),
         inventory_item_id |-> split_last(item.item.id),
         inventory_item_gid |-> item.item.id,
         sku |-> item.item.sku,
         tracked |-> item.item.tracked,
         location_name |-> location_data.name,
         quantities |-> quantities_dict]

InventoryRecords(location_data) ==
    [j \in 1..Len(location_data.edges) |->
        InventoryRecord(location_data.edges[j].node, location_data)]

\* ---- pages of products
\* A variant has no inventory item, an item without a level at the location,
\* or an item with a level there.
VariantKinds == {"no_item", "no_level", "level"}

\* The variants the served pages hold.
VariantsServed(srv) ==
    LET RECURSIVE Sum(_)
        Sum(k) == IF k = 0 THEN 0 ELSE Sum(k - 1) + Len(srv[k].kinds)
    IN  Sum(Len(srv))

\* Descriptors of the pages the server may serve as page n: the kinds of its
\* variants, in order, and which of them begin a new product (the first one
\* does); the whole listing holds at most MaxVariants variants.
ProductDraws(n, srv) ==
    UNION {
        {[number |-> n, kinds |-> ks, begins |-> bs, hasNextPage |-> more,
          endCursor |-> CursorOf(n)] :
            ks \in [1..k -> VariantKinds],
            bs \in {f \in [1..k -> BOOLEAN] : k > 0 => f[1]},
            more \in {b \in BOOLEAN : b => n < MaxPages}} :
        k \in 0..(MaxVariants - VariantsServed(srv))}

\* The product (by position on the page) variant i belongs to.
ProductOf(d, i) == Cardinality({j \in 1..i : d.begins[j]})

VariantNode(d, i, known) ==
    [id |-> GidPrefix(ProductVariantType) \o NodeId(d.number, i),
     title |-> "variant",
     sku |-> "sku",
     price |-> "9.99",
     inventoryItem |->
        IF d.kinds[i] = "no_item" THEN None
        ELSE [id |-> ItemGid(NodeId(d.number, i)),
              tracked |-> TRUE,
              inventoryLevel |->
                 IF d.kinds[i] = "level" /\ known
                 THEN [id |-> LevelGid(d.number, i),
                       quantities |-> LevelQuantities(i)]
                 ELSE None]]

ProductNode(d, p, known) ==
    LET mine == {i \in 1..Len(d.kinds) : ProductOf(d, i) = p}
        lo == CHOOSE i \in mine : \A j \in mine : i <= j
    IN  [id |-> GidPrefix(ProductType) \o NodeId(d.number, p),
         title |-> "product",
         handle |-> "handle",
         variants |-> [edges |-> [k \in 1..Cardinality(mine) |->
                                    [node |-> VariantNode(d, lo + k - 1, known)]]]]

ProductsPage(d, known) ==
    [shape |-> "ok",
     edges |-> [p \in 1..Cardinality({i \in 1..Len(d.kinds) : d.begins[i]}) |->
                  [node |-> ProductNode(d, p, known)]],
     pageInfo |-> [hasNextPage |-> d.hasNextPage, endCursor |-> d.endCursor],
     descriptor |-> d]

\* The exchanges a request for a page of products may end in.  A location the
\* server does not know has no level of any item.
ProductsExchanges(req, srv) ==
    LET n == PagesBefore(req.variables.after) + 1
        draws == IF n <= Len(srv) THEN {srv[n]} ELSE ProductDraws(n, srv)
        null == [ProductsPage([number |-> n, kinds |-> <<>>, begins |-> <<>>,
                               hasNextPage |-> FALSE, endCursor |-> CursorOf(n)], FALSE)
                    EXCEPT !.shape = "object_null"]
    IN  Failures(null) \cup {ProductsPage(d, KnownLocation(req)) : d \in draws}

\* The body of get_inventory_with_product_info's inner loop for a variant with
\* a level: its record.
ProductRecord(product, variant) ==
    LET inventory_item == variant.inventoryItem
        inventory_level == inventory_item.inventoryLevel
        quantities_dict == QuantitiesDict(inventory_level.quantities)
    IN  [inventory_level_id |-> split_last(inventory_level.id),
         inventory_level_gid |-> inventory_level.id,
         available |-> Get(quantities_dict, "available", 0),
         inventory_item_id |-> split_last(inventory_item.id),
         inventory_item_gid |-> inventory_item.id,
         sku |-> variant.sku,
         tracked |-> inventory_item.tracked,
         quantities |-> quantities_dict,
         product_id |-> split_last(product.id),
         product_title |-> product.title,
         product_handle |-> product.handle,
         variant_id |-> split_last(variant.id),
         variant_title |-> variant.title,
         variant_price |-> variant.price]

\* if inventory_item and inventory_item.get('inventoryLevel')
HasLevel(variant) ==
    /\ variant.inventoryItem # None
    /\ Get(variant.inventoryItem, "inventoryLevel", None) # None

\* VariantLoop with a fault, for comparison: a variant without a level ends the loop over the
\* product's variants.
RECURSIVE VariantLoopBreaks(_, _, _)
VariantLoopBreaks(product, variant_edges, acc) ==
    IF variant_edges = <<>> THEN acc
    ELSE LET variant == Head(variant_edges).node
         IN  IF HasLevel(variant)
             THEN VariantLoopBreaks(product, Tail(variant_edges),
                                    Append(acc, ProductRecord(product, variant)))
             ELSE acc

\* for variant_edge in product['variants']['edges']: ...
RECURSIVE VariantLoop(_, _, _)
VariantLoop(product, variant_edges, acc) ==
    IF variant_edges = <<>> THEN acc
    ELSE LET variant == Head(variant_edges).node
         IN  VariantLoop(product, Tail(variant_edges),
                         IF HasLevel(variant)
                         THEN Append(acc, ProductRecord(product, variant))
                         ELSE acc)

\* for product_edge in products['edges']: ...
RECURSIVE ProductLoop(_, _)
ProductLoop(product_edges, acc) ==
    IF product_edges = <<>> THEN acc
    ELSE LET product == Head(product_edges).node
         IN  ProductLoop(Tail(product_edges),
                         VariantLoop(product, product.variants.edges, acc))

\* NextCursor with a fault, for comparison: the cursor is never advanced.
NextCursorStale(page_info) == None

\* cursor = page_info.get('endCursor')
NextCursor(page_info) == Get(page_info, "endCursor", None)

(***************************************************************************)
(* One call of one client operation.  The call and its arguments are drawn *)
(* with the initial state; the server's stock is drawn for the operations  *)
(* that read or change it.                                                 *)
(***************************************************************************)
ItemArgs == {KnownItem, ItemGid(KnownItem), UnknownItem}
LocationArgs == Locations \cup {LocationGid(l) : l \in Locations}
ListingArgs == {LocationOrder[1], LocationGid(LocationOrder[1])}
Deltas == (0 - MaxQty)..MaxQty

Last(seq) == seq[Len(seq)]

IdsIdle ==
    /\ ident = <<>>
    /\ etype = <<>>
    /\ short_form = <<>>
    /\ requalified = <<>>
    /\ normalized = <<>>
    /\ renormalized = <<>>
    /\ idpc = "idle"

DispatchIdle ==
    /\ max_workers = 0
    /\ items = 0
    /\ futures = <<>>
    /\ queue = <<>>
    /\ num_threads = 0
    /\ reported = <<>>
    /\ starts = <<>>
    /\ mainpc = "idle"

ClientStart ==
    /\ requests = <<>>
    /\ responses = <<>>
    /\ served = <<>>
    /\ cursor = None
    /\ has_next_page = TRUE
    /\ all_inventory = <<>>
    /\ current_quantity = 0
    /\ ret = Return(None)
    /\ stock_at_adjust = NoStock

ClientIdle ==
    /\ ClientStart
    /\ op = "none"
    /\ arg_item = <<>>
    /\ arg_location = <<>>
    /\ arg_quantity = 0
    /\ stock = NoStock
    /\ cpc = "idle"

Init ==
    /\ IdsIdle
    /\ DispatchIdle
    /\ ClientStart
    /\ \/ /\ op = "get_locations"
          /\ arg_item = <<>> /\ arg_location = <<>> /\ arg_quantity = 0
          /\ stock = NoStock
          /\ cpc = "send_locations"
       \/ /\ op = "get_inventory_levels"
          /\ arg_item \in ItemArgs
          /\ arg_location = <<>> /\ arg_quantity = 0
          /\ stock \in StockStates
          /\ cpc = "send_levels"
       \/ /\ op = "update_inventory"
          /\ arg_item \in ItemArgs
          /\ arg_location \in LocationArgs
          /\ arg_quantity \in Deltas
          /\ stock \in StockStates
          /\ cpc = "send_adjust"
       \/ /\ op = "set_inventory_quantity"
          /\ arg_item \in ItemArgs \ {UnknownItem}
          /\ arg_location \in LocationArgs
          /\ arg_quantity \in Quantities
          /\ stock \in StockStates
          /\ cpc = "send_levels"
       \/ /\ op \in {"get_all_inventory_by_location", "get_inventory_with_product_info"}
          /\ arg_item = <<>> /\ arg_quantity = 0
          /\ arg_location \in ListingArgs
          /\ stock = NoStock
          /\ cpc = "send_page"

callVars == <<op, arg_item, arg_location, arg_quantity>>
loopVars == <<cursor, has_next_page, all_inventory>>

\* get_locations: the request
LocationsSend ==
    /\ cpc = "send_locations"
    /\ requests' = Append(requests, [query |-> "getLocations", variables |-> <<>>])
    /\ cpc' = "wait_locations"
    /\ UNCHANGED <<callVars, stock, served, responses, loopVars, current_quantity, ret>>
    /\ UNCHANGED stock_at_adjust
    /\ UNCHANGED <<idVars, dispVars>>

\* get_locations: the result of the request, to the return
LocationsReceive ==
    /\ cpc = "wait_locations"
    /\ \E net \in LocationsExchanges :
          /\ responses' = Append(responses, [shape |-> net.shape])
          /\ ret' = get_locations(net)
    /\ cpc' = "done"
    /\ UNCHANGED <<callVars, stock, served, requests, loopVars, current_quantity>>
    /\ UNCHANGED stock_at_adjust
    /\ UNCHANGED <<idVars, dispVars>>

\* get_inventory_levels (called directly or by set_inventory_quantity): the
\* normalization of the identifier and the request
LevelsSend ==
    /\ cpc = "send_levels"
    /\ requests' = Append(requests,
                          LevelsRequest(normalize(arg_item, InventoryItemType)))
    /\ cpc' = "wait_levels"
    /\ UNCHANGED <<callVars, stock, served, responses, loopVars, current_quantity, ret>>
    /\ UNCHANGED stock_at_adjust
    /\ UNCHANGED <<idVars, dispVars>>

\* get_inventory_levels from the result of its request on and, in
\* set_inventory_quantity, the lines up to the return True or to the call of
\* update_inventory
LevelsReceive ==
    /\ cpc = "wait_levels"
    /\ \E net \in LevelsExchanges(Last(requests), stock) :
          LET current_levels == get_inventory_levels(net)
              current == CurrentQuantity(current_levels.value, arg_location)
          IN  /\ responses' = Append(responses, net)
              /\ IF op = "get_inventory_levels" \/ current_levels.raised # "no"
                 THEN /\ ret' = current_levels
                      /\ cpc' = "done"
                      /\ UNCHANGED current_quantity
                 ELSE /\ current_quantity' = current
                      /\ IF QuantityChange(arg_quantity, current) = 0
                         THEN ret' = Return(TRUE) /\ cpc' = "done"
                         ELSE ret' = ret /\ cpc' = "send_adjust"
    /\ UNCHANGED <<callVars, stock, served, requests, loopVars>>
    /\ UNCHANGED stock_at_adjust
    /\ UNCHANGED <<idVars, dispVars>>

\* update_inventory (called directly or by set_inventory_quantity): the
\* normalization of the identifiers and the request
AdjustSend ==
    /\ cpc = "send_adjust"
    /\ LET quantity_change ==
               IF op = "update_inventory" THEN arg_quantity
               ELSE QuantityChange(arg_quantity, current_quantity)
       IN  requests' = Append(requests,
                              AdjustRequest(normalize(arg_item, InventoryItemType),
                                            normalize(arg_location, LocationType),
                                            quantity_change))
    /\ cpc' = "wait_adjust"
    /\ UNCHANGED <<callVars, stock, served, responses, loopVars, current_quantity, ret>>
    /\ UNCHANGED stock_at_adjust
    /\ UNCHANGED <<idVars, dispVars>>

\* update_inventory from the result of its request on; set_inventory_quantity
\* returns what it returns
AdjustReceive ==
    /\ cpc = "wait_adjust"
    /\ \E net \in AdjustExchanges(Last(requests), stock) :
          /\ responses' = Append(responses, net)
          /\ stock' = StockAfter(Last(requests), net, stock)
          /\ ret' = update_inventory(net)
    /\ stock_at_adjust' = stock
    /\ cpc' = "done"
    /\ UNCHANGED <<callVars, served, requests, loopVars, current_quantity>>
    /\ UNCHANGED <<idVars, dispVars>>

\* Somebody else changes the item's quantity at a location while
\* set_inventory_quantity runs.
ExternalChange ==
    /\ op = "set_inventory_quantity"
    /\ cpc # "done"
    /\ \E l \in DOMAIN stock, q \in Quantities :
          /\ q # stock[l]
          /\ stock' = [stock EXCEPT ![l] = q]
    /\ UNCHANGED <<callVars, cpc, served, requests, responses, loopVars,
                   current_quantity, ret>>
    /\ UNCHANGED stock_at_adjust
    /\ UNCHANGED <<idVars, dispVars>>

\* The first two tests of the listings' guard: `not result or 'data' not in result`
NoData(result) == Falsy(result) \/ ~HasData(result)

\* get_all_inventory_by_location: the top of the while loop, with the request
\* of the next page
InventoryPageSend ==
    /\ op = "get_all_inventory_by_location"
    /\ cpc = "send_page"
    /\ has_next_page
    /\ requests' = Append(requests,
                          InventoryRequest(normalize(arg_location, LocationType),
                                           InventoryDefaultLimit, cursor))
    /\ cpc' = "wait_page"
    /\ UNCHANGED <<callVars, stock, served, responses, loopVars, current_quantity, ret>>
    /\ UNCHANGED stock_at_adjust
    /\ UNCHANGED <<idVars, dispVars>>

\* get_all_inventory_by_location: the rest of the loop body, from the result
\* of the request to the next test of has_next_page, and the return
InventoryPageReceive ==
    /\ op = "get_all_inventory_by_location"
    /\ cpc = "wait_page"
    /\ \E net \in InventoryExchanges(Last(requests), served) :
          LET r == make_request(net)
              result == r.value
              grown == all_inventory \o InventoryRecords(result)
          IN  /\ responses' = Append(responses, [shape |-> net.shape])
              /\ served' = ServedAfter(Last(requests), net, served)
              /\ IF r.raised # "no"
                 THEN ret' = r /\ cpc' = "done" /\ UNCHANGED loopVars
                 ELSE IF NoData(result)
                 THEN ret' = Return(all_inventory) /\ cpc' = "done" /\ UNCHANGED loopVars
                 ELSE IF SubscriptFault(result) # "no"
                 THEN /\ ret' = Raise(SubscriptFault(result))
                      /\ cpc' = "done"
                      /\ UNCHANGED loopVars
                 ELSE IF ObjectIsNone(result)
                 THEN ret' = Return(all_inventory) /\ cpc' = "done" /\ UNCHANGED loopVars
                 ELSE /\ all_inventory' = grown
                      /\ has_next_page' = result.pageInfo.hasNextPage
                      /\ cursor' = NextCursor(result.pageInfo)
                      /\ IF result.pageInfo.hasNextPage
                         THEN ret' = ret /\ cpc' = "send_page"
                         ELSE ret' = Return(grown) /\ cpc' = "done"
    /\ UNCHANGED <<callVars, stock, requests, current_quantity>>
    /\ UNCHANGED stock_at_adjust
    /\ UNCHANGED <<idVars, dispVars>>

\* get_inventory_with_product_info: the top of the while loop, with the
\* request of the next page
ProductsPageSend ==
    /\ op = "get_inventory_with_product_info"
    /\ cpc = "send_page"
    /\ has_next_page
    /\ requests' = Append(requests,
                          ProductsRequest(normalize(arg_location, LocationType),
                                          ProductsDefaultLimit, cursor))
    /\ cpc' = "wait_page"
    /\ UNCHANGED <<callVars, stock, served, responses, loopVars, current_quantity, ret>>
    /\ UNCHANGED stock_at_adjust
    /\ UNCHANGED <<idVars, dispVars>>

\* get_inventory_with_product_info: the rest of the loop body, from the result
\* of the request to the next test of has_next_page, and the return
ProductsPageReceive ==
    /\ op = "get_inventory_with_product_info"
    /\ cpc = "wait_page"
    /\ \E net \in ProductsExchanges(Last(requests), served) :
          LET r == make_request(net)
              result == r.value
              grown == ProductLoop(result.edges, all_inventory)
          IN  /\ responses' = Append(responses, [shape |-> net.shape])
              /\ served' = ServedAfter(Last(requests), net, served)
              /\ IF r.raised # "no"
                 THEN ret' = r /\ cpc' = "done" /\ UNCHANGED loopVars
                 ELSE IF NoData(result)
                 THEN ret' = Return(all_inventory) /\ cpc' = "done" /\ UNCHANGED loopVars
                 ELSE IF SubscriptFault(result) # "no"
                 THEN /\ ret' = Raise(SubscriptFault(result))
                      /\ cpc' = "done"
                      /\ UNCHANGED loopVars
                 ELSE IF ObjectIsNone(result)
                 THEN ret' = Raise("TypeError") /\ cpc' = "done" /\ UNCHANGED loopVars
                 ELSE /\ all_inventory' = grown
                      /\ has_next_page' = result.pageInfo.hasNextPage
                      /\ cursor' = NextCursor(result.pageInfo)
                      /\ IF result.pageInfo.hasNextPage
                         THEN ret' = ret /\ cpc' = "send_page"
                         ELSE ret' = Return(grown) /\ cpc' = "done"
    /\ UNCHANGED <<callVars, stock, requests, current_quantity>>
    /\ UNCHANGED stock_at_adjust
    /\ UNCHANGED <<idVars, dispVars>>

Next ==
    \/ LocationsSend
    \/ LocationsReceive
    \/ LevelsSend
    \/ LevelsReceive
    \/ AdjustSend
    \/ AdjustReceive
    \/ ExternalChange
    \/ InventoryPageSend
    \/ InventoryPageReceive
    \/ ProductsPageSend
    \/ ProductsPageReceive

Spec == Init /\ [][Next]_vars

(***************************************************************************)
(* What the claims speak of.                                               *)
(***************************************************************************)
Done == cpc = "done"
Shapes == [i \in 1..Len(responses) |-> responses[i].shape]
AllOk == \A i \in 1..Len(responses) : responses[i].shape = "ok"
LastShape == IF responses = <<>> THEN "no" ELSE Last(responses).shape
Paginated == op \in {"get_all_inventory_by_location", "get_inventory_with_product_info"}

\* The cursors the requests carried, in order.
Cursors == [i \in 1..Len(requests) |-> requests[i].variables.after]

\* The numeric ids of the levels on the pages the server served, in page order.
RECURSIVE LevelIdsServed(_)
LevelIdsServed(srv) ==
    IF srv = <<>> THEN <<>>
    ELSE LevelIdsServed(SubSeq(srv, 1, Len(srv) - 1))
            \o [j \in 1..Last(srv).size |-> NodeId(Last(srv).number, j)]

RECURSIVE SizesServed(_)
SizesServed(srv) ==
    IF srv = <<>> THEN 0 ELSE SizesServed(SubSeq(srv, 1, Len(srv) - 1)) + Last(srv).size

\* The numeric ids of the variants with a level on the pages the server
\* served, in page and variant order.
RECURSIVE VariantIdsServed(_)
VariantIdsServed(srv) ==
    IF srv = <<>> THEN <<>>
    ELSE LET d == Last(srv)
             IsLevel(i) == d.kinds[i] = "level"
             at == SelectSeq([i \in 1..Len(d.kinds) |-> i], IsLevel)
         IN  VariantIdsServed(SubSeq(srv, 1, Len(srv) - 1))
                \o [k \in 1..Len(at) |-> NodeId(d.number, at[k])]

ItemIdsReturned == [i \in 1..Len(ret.value) |-> ret.value[i].inventory_item_id]
VariantIdsReturned == [i \in 1..Len(ret.value) |-> ret.value[i].variant_id]

\* C3: when every page request of get_all_inventory_by_location was answered
\* with a well-formed page, the first request carried no cursor and each later
\* one the end cursor of the page before it; and once the k-th page reported
\* no next page the operation has sent exactly k requests and returns the
\* records of the k pages in page order, as many as the pages hold edges.
C3_PaginationResult ==
    (op = "get_all_inventory_by_location" /\ AllOk) =>
        /\ \A i \in 1..Len(requests) :
              Cursors[i] = IF i = 1 THEN None ELSE served[i - 1].endCursor
        /\ \A i \in 1..Len(served) : served[i].number = i
        /\ Done =>
              /\ ~Last(served).hasNextPage
              /\ Len(requests) = Len(served)
              /\ ret.raised = "no"
              /\ Len(ret.value) = SizesServed(served)
              /\ ItemIdsReturned = LevelIdsServed(served)

\* Pages of sizes 3, 3, 1 were served: 3 requests, 7 records.
C3_Witness ==
    /\ op = "get_all_inventory_by_location"
    /\ Done
    /\ AllOk
    /\ [i \in 1..Len(served) |-> served[i].size] = <<3, 3, 1>>
    /\ Len(requests) = 3
    /\ Len(ret.value) = 7

\* C9: when every page request of get_inventory_with_product_info was
\* answered with a well-formed page of products, the records gathered are, in
\* page, product and variant order, exactly the variants that have a level at
\* the location; a variant without an inventory item or without a level adds
\* no record, raises nothing and does not end the pagination, which goes on
\* until a page reports no next page.
C9_SkipsVariantsWithoutLevel ==
    (op = "get_inventory_with_product_info" /\ AllOk) =>
        /\ \A i \in 1..Len(requests) :
              Cursors[i] = IF i = 1 THEN None ELSE served[i - 1].endCursor
        /\ cpc = "send_page" =>
              [i \in 1..Len(all_inventory) |-> all_inventory[i].variant_id]
                 = VariantIdsServed(served)
        /\ Done =>
              /\ ~Last(served).hasNextPage
              /\ Len(requests) = Len(served)
              /\ ret.raised = "no"
              /\ VariantIdsReturned = VariantIdsServed(served)
              /\ ItemIdsReturned = VariantIdsServed(served)

\* Two pages: a variant without a level on the first, a variant without an
\* item before one with a level on the second; one record is returned.
C9_Witness ==
    /\ op = "get_inventory_with_product_info"
    /\ Done
    /\ AllOk
    /\ Len(served) = 2
    /\ served[1].kinds = <<"no_level">>
    /\ served[2].kinds = <<"no_item", "level">>
    /\ served[2].begins = <<TRUE, FALSE>>
    /\ ret.raised = "no"
    /\ Len(ret.value) = 1

\* The location the location_id argument names, by short id or by GID.
Denoted == CHOOSE l \in Locations : arg_location \in {l, LocationGid(l)}

\* The levels the read of set_inventory_quantity was answered with that are
\* levels of the location named.
LevelsReadThere ==
    IF responses[1].shape # "ok" THEN {}
    ELSE {i \in 1..Len(responses[1].edges) :
            responses[1].edges[i].node.location.id = LocationGid(Denoted)}

\* The quantity read for the location named, 0 when the read held no level of it.
QuantityRead ==
    IF LevelsReadThere = {} THEN 0
    ELSE responses[1].edges[CHOOSE i \in LevelsReadThere : TRUE].node.available

AdjustRequests == {i \in 1..Len(requests) : requests[i].query = "inventoryAdjustQuantities"}

\* C5: when the read of set_inventory_quantity shows the target as the
\* available quantity at the location named, the call returns True and no
\* inventoryAdjustQuantities request is sent.
C5_NoOpWhenEqual ==
    (/\ op = "set_inventory_quantity"
     /\ responses # <<>>
     /\ LevelsReadThere # {}
     /\ QuantityRead = arg_quantity) =>
        /\ Done
        /\ ret = Return(TRUE)
        /\ AdjustRequests = {}

\* The read showed 2 at the location, named by its GID, and 2 was asked for.
C5_Witness ==
    /\ op = "set_inventory_quantity"
    /\ responses # <<>>
    /\ LevelsReadThere # {}
    /\ QuantityRead = 2
    /\ arg_quantity = 2
    /\ arg_location = LocationGid(Denoted)
    /\ Done
    /\ ret = Return(TRUE)

\* get_inventory_levels gave set_inventory_quantity a result.
ReadReturned == responses # <<>> /\ responses[1].shape \notin {"data_null", "key_missing"}

\* The answer to the mutation is one update_inventory turns into a boolean,
\* and that boolean.
AdjustAnswered ==
    Len(responses) = 2
        /\ responses[2].shape \in {"ok", "request_exception", "empty_object", "errors_only"}
AdjustSucceeded == responses[2].shape = "ok" /\ responses[2].userErrors = <<>>

\* C6: once get_inventory_levels has given set_inventory_quantity a result
\* and the target differs from the quantity read for the location named (0
\* when the result holds no level of it), one inventoryAdjustQuantities
\* request is sent, for the same item and location with delta = target -
\* quantity read, and the call returns the boolean update_inventory returns.
C6_AdjustsByDelta ==
    (/\ op = "set_inventory_quantity"
     /\ ReadReturned
     /\ QuantityRead # arg_quantity) =>
        /\ cpc \in {"send_adjust", "wait_adjust", "done"}
        /\ cpc = "send_adjust" => AdjustRequests = {}
        /\ cpc \in {"wait_adjust", "done"} =>
              /\ AdjustRequests = {2}
              /\ Len(requests) = 2
              /\ requests[2].variables =
                    [delta |-> arg_quantity - QuantityRead,
                     inventoryItemId |-> ItemGid(KnownItem),
                     locationId |-> LocationGid(Denoted)]
        /\ (Done /\ AdjustAnswered) => ret = Return(AdjustSucceeded)

\* 1 was read at the location, named by its short id, 2 asked for: the
\* mutation carried +1 and its success was returned.
C6_Witness ==
    /\ op = "set_inventory_quantity"
    /\ Done
    /\ ReadReturned
    /\ arg_location = Denoted
    /\ LevelsReadThere # {}
    /\ QuantityRead = 1
    /\ arg_quantity = 2
    /\ Len(requests) = 2
    /\ requests[2].variables.delta = 1
    /\ ret = Return(TRUE)

\* C4: the page requests of get_all_inventory_by_location are sequential; the
\* loop ends exactly when a page reports no next page or a request fails or
\* is answered with an empty or error result; and when it ends on such a
\* request the records of the pages before are returned and no further
\* request is sent.
C4_StopRule ==
    op = "get_all_inventory_by_location" =>
        /\ Len(requests) \in {Len(responses), Len(responses) + 1}
        /\ (responses # <<>> /\ cpc # "wait_page") =>
              (Done <=> (LastShape # "ok" \/ ~Last(served).hasNextPage))
        /\ (Done /\ LastShape # "ok") =>
              /\ ret.raised = "no"
              /\ ItemIdsReturned = LevelIdsServed(served)
              /\ Len(requests) = Len(responses)

C8_MissingDataIsNotFound ==
    (/\ Done
     /\ op \in {"get_locations", "get_inventory_levels",
                "get_all_inventory_by_location", "get_inventory_with_product_info"}
     /\ LastShape \in {"data_null", "key_missing", "object_null"}) =>
        /\ ret.raised = "no"
        /\ ~Paginated => ret.value = <<>>

\* set_inventory_quantity has read the levels, the server has applied its
\* mutation, and the call has ended.
WriteApplied ==
    /\ op = "set_inventory_quantity"
    /\ Done
    /\ Len(responses) = 2
    /\ responses[1].shape = "ok"
    /\ AdjustSucceeded

\* Another actor changed the quantity at the location named between the read
\* and the write: the server held another quantity when it applied the
\* mutation than the one it had answered the read with.
ChangedBetween == WriteApplied /\ stock_at_adjust[Denoted] # QuantityRead

\* C12 as claimed: when another actor changes the item's quantity at the
\* location between the read and the adjust call of one set_inventory_quantity,
\* the call returns success and the final quantity is the target asked for,
\* the other actor's change lost.
C12_ExternalChangeOverwritten ==
    ChangedBetween =>
        /\ ret = Return(TRUE)
        /\ stock[Denoted] = arg_quantity

\* C12, amended: the read and the adjust call are two steps, the delta being
\* fixed by the read; when the mutation is applied the call returns success
\* and the final quantity is the quantity the server held at the write plus
\* target - quantity read, so that after a change by another actor between
\* the two steps the change is kept and the final quantity is not the target.
C12_StaleDeltaApplied ==
    op = "set_inventory_quantity" =>
        /\ (cpc \in {"send_adjust", "wait_adjust"} /\ responses[1].shape = "ok") =>
              current_quantity = QuantityRead
        /\ WriteApplied =>
              /\ ret = Return(TRUE)
              /\ requests[2].variables.delta = arg_quantity - QuantityRead
              /\ stock[Denoted] =
                    stock_at_adjust[Denoted] + (arg_quantity - QuantityRead)
        /\ ChangedBetween => stock[Denoted] # arg_quantity

\* 1 was read and 2 asked for; another actor set the quantity to 2 before the
\* mutation, which carried +1: the call returned True and the server holds 3.
C12_Witness ==
    /\ ChangedBetween
    /\ QuantityRead = 1
    /\ arg_quantity = 2
    /\ stock_at_adjust[Denoted] = 2
    /\ requests[2].variables.delta = 1
    /\ ret = Return(TRUE)
    /\ stock[Denoted] = 3

(***************************************************************************)
(* The identifier conversions: the short form of an identifier, and the    *)
(* short form put through the normalization rule of an entity type.        *)
(***************************************************************************)
InitIds ==
    /\ ident \in Identifiers
    /\ etype \in EntityTypes
    /\ short_form = <<>>
    /\ requalified = <<>>
    /\ normalized = <<>>
    /\ renormalized = <<>>
    /\ idpc = "start"
    /\ ClientIdle
    /\ DispatchIdle

\* id.split('/')[-1], as get_locations, get_inventory_levels and the listings
\* take the short form of a GID
ExtractShort ==
    /\ idpc = "start"
    /\ short_form' = split_last(ident)
    /\ idpc' = "split"
    /\ UNCHANGED <<ident, etype, requalified, normalized, renormalized>>
    /\ UNCHANGED <<clientVars, dispVars>>

\* The "Asegurar que tenemos el GID completo" lines, applied to the short form
Requalify ==
    /\ idpc = "split"
    /\ requalified' = normalize(short_form, etype)
    /\ idpc' = "done"
    /\ UNCHANGED <<ident, etype, short_form, normalized, renormalized>>
    /\ UNCHANGED <<clientVars, dispVars>>

\* The same lines applied to the identifier an operation is called with
Normalize ==
    /\ idpc = "start"
    /\ normalized' = normalize(ident, etype)
    /\ idpc' = "normalized"
    /\ UNCHANGED <<ident, etype, short_form, requalified, renormalized>>
    /\ UNCHANGED <<clientVars, dispVars>>

\* The identifier an operation has normalized, handed to an operation that
\* applies the lines of the same entity type again
NormalizeAgain ==
    /\ idpc = "normalized"
    /\ renormalized' = normalize(normalized, etype)
    /\ idpc' = "renormalized"
    /\ UNCHANGED <<ident, etype, short_form, requalified, normalized>>
    /\ UNCHANGED <<clientVars, dispVars>>

NextIds == ExtractShort \/ Requalify \/ Normalize \/ NormalizeAgain

SpecIds == InitIds /\ [][NextIds]_vars

\* C10: for a fully-qualified identifier gid://shopify/<EntityType>/<id> of
\* an entity type the client normalizes, the short form is the id, and
\* putting it through the rule of that entity type gives the identifier back.
C10_ShortFormRoundTrip ==
    IsFullyQualified(ident, etype) =>
        /\ idpc \in {"split", "done"} =>
              /\ short_form # <<>>
              /\ GidPrefix(etype) \o short_form = ident
        /\ idpc = "done" => requalified = ident

\* gid://shopify/Location/12 gave 12 and came back.
C10_Witness ==
    /\ idpc = "done"
    /\ etype = LocationType
    /\ ident = GidPrefix(LocationType) \o <<"1", "2">>
    /\ short_form = <<"1", "2">>
    /\ requalified = ident

\* C11: for every identifier, short or fully qualified, and each entity type
\* the client normalizes, normalizing the normalized identifier changes
\* nothing, and an identifier already fully qualified is left as it is.
C11_NormalizeIdempotent ==
    /\ idpc \in {"normalized", "renormalized"} =>
          ((\E t \in EntityTypes : IsFullyQualified(ident, t)) =>
               normalized = ident)
    /\ idpc = "renormalized" => renormalized = normalized

\* The short id 12 became gid://shopify/InventoryItem/12 and stayed so.
C11_Witness ==
    /\ idpc = "renormalized"
    /\ etype = InventoryItemType
    /\ ident = <<"1", "2">>
    /\ normalized = GidPrefix(InventoryItemType) \o <<"1", "2">>
    /\ renormalized = normalized

(***************************************************************************)
(* main(): the fan-out of set_inventory_quantity over a ThreadPoolExecutor. *)
(* The pool is max_workers wide (100 in main, drawn from 1..MaxWorkers      *)
(* here so that commands outnumber workers); a command is one call of       *)
(* set_inventory_quantity, run by a worker thread from start to end.        *)
(***************************************************************************)

\* set_inventory_quantity as one function of the exchanges its two requests
\* end in (the second one is not made when the change is 0).
set_inventory_quantity(inventory_item_id, location_id, new_quantity, net1, net2) ==
    LET current_levels == get_inventory_levels(net1)
        current_quantity_ == CurrentQuantity(current_levels.value, location_id)
        quantity_change == QuantityChange(new_quantity, current_quantity_)
    IN  IF current_levels.raised # "no" THEN current_levels
        ELSE IF quantity_change = 0 THEN Return(TRUE)
        ELSE update_inventory(net2)

\* What one command may end in, whatever the server holds and answers.
CommandOutcomes(inventory_item_id, location_id) ==
    UNION {
        LET req1 == LevelsRequest(normalize(inventory_item_id, InventoryItemType))
        IN  UNION {
                LET levels == get_inventory_levels(net1)
                    change == QuantityChange(q, CurrentQuantity(levels.value, location_id))
                    req2 == AdjustRequest(normalize(inventory_item_id, InventoryItemType),
                                          normalize(location_id, LocationType),
                                          IF levels.raised = "no" THEN change ELSE 0)
                IN  {set_inventory_quantity(inventory_item_id, location_id, q, net1, net2) :
                        net2 \in AdjustExchanges(req2, st)} :
                net1 \in LevelsExchanges(req1, st)} :
        st \in StockStates, q \in Quantities}

\* use_Location is the GID of the second location; the records of
\* get_inventory_with_product_info carry short inventory item ids.
Outcomes == CommandOutcomes(KnownItem, LocationGid(LocationOrder[2]))

Running == {i \in 1..Len(futures) : futures[i].state = "RUNNING"}
Finished == {i \in 1..Len(futures) : futures[i].state = "FINISHED"}
Reported == {reported[k].future : k \in 1..Len(reported)}

\* CanSpawn with a fault, for comparison: the executor starts a thread whatever the pool holds.
CanSpawnUnbounded(threads, width) == TRUE

\* ThreadPoolExecutor(max_workers=...): a worker thread is started only while
\* the pool holds fewer than max_workers
CanSpawn(threads, width) == threads < width

\* AfterReport with a fault, for comparison: a fault of future.result() leaves the loop.
AfterReportUncaught(outcome, all_reported) ==
    IF outcome.raised # "no" \/ all_reported THEN "shutdown" ELSE "drain"

\* The as_completed loop after one future: the try/except keeps the loop going
\* until every future has been yielded.
AfterReport(outcome, all_reported) == IF all_reported THEN "shutdown" ELSE "drain"

InitDispatch ==
    /\ IdsIdle
    /\ ClientIdle
    /\ max_workers \in 1..MaxWorkers
    /\ items \in 0..MaxItems
    /\ futures = <<>>
    /\ queue = <<>>
    /\ num_threads = 0
    /\ reported = <<>>
    /\ starts = <<>>
    /\ mainpc = "submit"

\* executor.submit(manager.set_inventory_quantity, ...): a pending future, a
\* work item on the queue and, while the pool is not full, possibly a new
\* worker thread (always one when the pool is empty).
Submit ==
    /\ mainpc = "submit"
    /\ Len(futures) < items
    /\ futures' = Append(futures, [state |-> "PENDING", outcome |-> Return(None)])
    /\ starts' = Append(starts, 0)
    /\ queue' = Append(queue, Len(futures) + 1)
    /\ \E spawn \in BOOLEAN :
          /\ spawn => CanSpawn(num_threads, max_workers)
          /\ num_threads = 0 => spawn
          /\ num_threads' = IF spawn THEN num_threads + 1 ELSE num_threads
    /\ UNCHANGED <<max_workers, items, reported, mainpc>>
    /\ UNCHANGED <<idVars, clientVars>>

\* The for loop over location_Inventory_Detailed is over.
EndSubmit ==
    /\ mainpc = "submit"
    /\ Len(futures) = items
    /\ mainpc' = IF items = 0 THEN "shutdown" ELSE "drain"
    /\ UNCHANGED <<max_workers, items, futures, queue, num_threads, reported, starts>>
    /\ UNCHANGED <<idVars, clientVars>>

\* A worker thread that runs no command takes the next work item.
StartTask ==
    /\ queue # <<>>
    /\ Cardinality(Running) < num_threads
    /\ futures' = [futures EXCEPT ![Head(queue)].state = "RUNNING"]
    /\ starts' = [starts EXCEPT ![Head(queue)] = @ + 1]
    /\ queue' = Tail(queue)
    /\ UNCHANGED <<max_workers, items, num_threads, reported, mainpc>>
    /\ UNCHANGED <<idVars, clientVars>>

\* The command of a running future ends: its result or its fault is set on
\* the future.
FinishTask(i) ==
    /\ i \in Running
    /\ \E outcome \in Outcomes :
          futures' = [futures EXCEPT ![i] = [state |-> "FINISHED", outcome |-> outcome]]
    /\ UNCHANGED <<max_workers, items, queue, num_threads, reported, starts, mainpc>>
    /\ UNCHANGED <<idVars, clientVars>>

\* One turn of `for future in as_completed(futures)`: a finished future not
\* yet yielded; its result, or the fault future.result() raises, is printed.
Report(i) ==
    /\ mainpc = "drain"
    /\ i \in Finished \ Reported
    /\ LET outcome == futures[i].outcome
           line == IF outcome.raised = "no"
                   THEN [future |-> i, printed |-> "Resultado", value |-> outcome.value]
                   ELSE [future |-> i, printed |-> "Error", value |-> outcome.raised]
       IN  /\ reported' = Append(reported, line)
           /\ mainpc' = AfterReport(outcome, Len(reported) + 1 = Len(futures))
    /\ UNCHANGED <<max_workers, items, futures, queue, num_threads, starts>>
    /\ UNCHANGED <<idVars, clientVars>>

\* The end of the with block: executor.shutdown(wait=True) returns once no
\* work item is queued or running.
ExitWith ==
    /\ mainpc = "shutdown"
    /\ queue = <<>>
    /\ Running = {}
    /\ mainpc' = "done"
    /\ UNCHANGED <<max_workers, items, futures, queue, num_threads, reported, starts>>
    /\ UNCHANGED <<idVars, clientVars>>

NextDispatch ==
    \/ Submit
    \/ EndSubmit
    \/ StartTask
    \/ \E i \in 1..MaxItems + 1 : FinishTask(i)
    \/ \E i \in 1..MaxItems + 1 : Report(i)
    \/ ExitWith

SpecDispatch == InitDispatch /\ [][NextDispatch]_vars

\* The line main printed for a future is the future's outcome.
ReportedAs(k) ==
    LET outcome == futures[reported[k].future].outcome
    IN  IF outcome.raised = "no"
        THEN reported[k].printed = "Resultado" /\ reported[k].value = outcome.value
        ELSE reported[k].printed = "Error" /\ reported[k].value = outcome.raised

\* C1: main leaves the with block only after all N commands have ended, and
\* has then printed exactly N outcomes, one per command, each the command's
\* boolean result or its fault; whatever has faulted, a command that has not
\* ended and an outcome that is not printed can still make their step, so
\* that nothing but the end of all of them stops the dispatch.
C1_WaitAllAndIsolate ==
    /\ \A k \in 1..Len(reported) :
          /\ reported[k].future \in Finished
          /\ ReportedAs(k)
          /\ \A m \in 1..Len(reported) : reported[m].future = reported[k].future => m = k
    /\ mainpc = "done" =>
          /\ Len(futures) = items
          /\ Finished = 1..items
          /\ Reported = 1..items
          /\ Len(reported) = items
    /\ mainpc # "done" => ENABLED NextDispatch

\* Three commands: one returned True, one False, one raised; main is through
\* and has printed the three.
C1_Witness ==
    /\ mainpc = "done"
    /\ items = 3
    /\ Len(reported) = 3
    /\ \E i, j, k \in 1..3 :
          /\ futures[i].outcome = Return(TRUE)
          /\ futures[j].outcome = Return(FALSE)
          /\ futures[k].outcome.raised = "TypeError"

\* C2: at most max_workers commands run at the same time; a command is
\* started at most once, exactly once when it runs or has ended, and every
\* command has been started once when main is through: none is started again
\* after it failed.
C2_BoundedNoRetry ==
    /\ Cardinality(Running) <= max_workers
    /\ num_threads <= max_workers
    /\ \A i \in 1..Len(futures) :
          starts[i] = IF futures[i].state = "PENDING" THEN 0 ELSE 1
    /\ mainpc = "done" => \A i \in 1..items : starts[i] = 1

\* The pool is full, another command waits in the queue, and a command that
\* raised has ended and has not been started again.
C2_Witness ==
    /\ Cardinality(Running) = max_workers
    /\ queue # <<>>
    /\ \E i \in Finished : futures[i].outcome.raised # "no" /\ starts[i] = 1
====
